---- MODULE Spec2Model ----
(***************************************************************************)
(* docker-safe-sock: a filtering reverse proxy in front of the Docker      *)
(* socket (src/main.go).  The model follows one inbound request through    *)
(* authMiddleware, the reverse proxy's dial of the backend socket,         *)
(* modifyResponse (pass-through, filterInspectResponse, or the event pump  *)
(* goroutine built on bufio.Scanner + shouldKeepEvent + io.Pipe) and the   *)
(* copy of the response to the client.                                     *)
(*                                                                         *)
(* Strings the code inspects character by character (URL paths, event     *)
(* Type/Action) are sequences of one-character strings, so that the        *)
(* regular expression, strings.Contains, strings.HasSuffix and             *)
(* strings.HasPrefix are computed, not assumed.                            *)
(***************************************************************************)
EXTENDS Integers, Sequences, FiniteSets, TLC

(***************************************************************************)
(* Bounds of the model.                                                    *)
(***************************************************************************)
\* number of concurrent inbound requests
NumReqs == 2
\* lines a backend emits on one event stream
MaxLines == 3
\* the same, where the classifier is probed with many different lines
MaxClassifyLines == 1
\* the same, where requests run concurrently
MaxConcLines == 1

(***************************************************************************)
(* Character classes and words.                                            *)
(***************************************************************************)
Lower == {"a", "b", "c", "d", "e", "f", "g", "h", "i", "j", "k", "l", "m",
          "n", "o", "p", "q", "r", "s", "t", "u", "v", "w", "x", "y", "z"}
Upper == {"A", "B", "C", "D", "E", "F", "G", "H", "I", "J", "K", "L", "M",
          "N", "O", "P", "Q", "R", "S", "T", "U", "V", "W", "X", "Y", "Z"}
Digit == {"0", "1", "2", "3", "4", "5", "6", "7", "8", "9"}
\* [a-zA-Z0-9_.-]
IdChars == Lower \cup Upper \cup Digit \cup {"_", ".", "-"}
\* [\d\.]
VersionChars == Digit \cup {"."}

w_version == <<"v", "e", "r", "s", "i", "o", "n">>
w_ping == <<"_", "p", "i", "n", "g">>
w_events == <<"e", "v", "e", "n", "t", "s">>
w_containers == <<"c", "o", "n", "t", "a", "i", "n", "e", "r", "s">>
w_json == <<"j", "s", "o", "n">>
w_slash == <<"/">>
w_containers_json == w_containers \o w_slash \o w_json

(***************************************************************************)
(* Go's strings package.                                                   *)
(***************************************************************************)
HasPrefix(s, p) == Len(p) <= Len(s) /\ SubSeq(s, 1, Len(p)) = p
HasSuffix(s, p) == Len(p) <= Len(s) /\ SubSeq(s, Len(s) - Len(p) + 1, Len(s)) = p
Contains(s, p) ==
    \E i \in 0..(Len(s) - Len(p)) : SubSeq(s, i + 1, i + Len(p)) = p
AllIn(s, chars) == \A i \in 1..Len(s) : s[i] \in chars

(***************************************************************************)
(* allowedPaths:                                                           *)
(*   ^/(v[\d\.]+/)??(version|_ping|events|containers/json|                 *)
(*                   containers/[a-zA-Z0-9_.-]+/json)$                     *)
(* MatchString is membership in the language of the anchored expression:   *)
(* some split of the text after the leading slash into the optional group  *)
(* and one alternative.                                                    *)
(***************************************************************************)
\* v[\d\.]+/
VersionGroup(s) ==
    /\ Len(s) >= 3
    /\ s[1] = "v"
    /\ s[Len(s)] = "/"
    /\ AllIn(SubSeq(s, 2, Len(s) - 1), VersionChars)

\* containers/[a-zA-Z0-9_.-]+/json
InspectAlternative(s) ==
    LET pre == w_containers \o w_slash
        suf == w_slash \o w_json
    IN  /\ Len(s) > Len(pre) + Len(suf)
        /\ HasPrefix(s, pre)
        /\ HasSuffix(s, suf)
        /\ AllIn(SubSeq(s, Len(pre) + 1, Len(s) - Len(suf)), IdChars)

\* (version|_ping|events|containers/json|containers/[a-zA-Z0-9_.-]+/json)
RouteGroup(s) ==
    \/ s \in {w_version, w_ping, w_events, w_containers_json}
    \/ InspectAlternative(s)

allowedPaths(path) ==
    /\ Len(path) >= 1
    /\ path[1] = "/"
    /\ \E k \in 1..Len(path) :
          /\ k = 1 \/ VersionGroup(SubSeq(path, 2, k))
          /\ RouteGroup(SubSeq(path, k + 1, Len(path)))

(***************************************************************************)
(* JSON texts as they travel on the wire.  A text is either not JSON at    *)
(* all (Bad) or a value:                                                   *)
(*   [t |-> "obj", m |-> <<  <<key, value>>, ... >>]   members in order    *)
(*   [t |-> "arr", a |-> << string, ... >>]                                *)
(*   [t |-> "str", s |-> string]     [t |-> "num", lit |-> digits]         *)
(*   [t |-> "null"]                                                        *)
(***************************************************************************)
Bad == [t |-> "bad"]
Null == [t |-> "null"]
Str(s) == [t |-> "str", s |-> s]
Num(lit) == [t |-> "num", lit |-> lit]
Arr(a) == [t |-> "arr", a |-> a]
Obj(m) == [t |-> "obj", m |-> m]

w_container == <<"c", "o", "n", "t", "a", "i", "n", "e", "r">>
w_network == <<"n", "e", "t", "w", "o", "r", "k">>
w_start == <<"s", "t", "a", "r", "t">>
w_die == <<"d", "i", "e">>
w_pause == <<"p", "a", "u", "s", "e">>
w_unpause == <<"u", "n", "p", "a", "u", "s", "e">>
w_create == <<"c", "r", "e", "a", "t", "e">>
w_destroy == <<"d", "e", "s", "t", "r", "o", "y">>
w_rename == <<"r", "e", "n", "a", "m", "e">>
w_update == <<"u", "p", "d", "a", "t", "e">>
w_connect == <<"c", "o", "n", "n", "e", "c", "t">>
w_disconnect == <<"d", "i", "s", "c", "o", "n", "n", "e", "c", "t">>
w_health_status == <<"h", "e", "a", "l", "t", "h", "_", "s", "t", "a", "t", "u", "s">>

(***************************************************************************)
(* encoding/json, Unmarshal into struct{Type, Action string} with the tags *)
(* `json:"type"` and `json:"action"`.  A key selects a field when it       *)
(* equals the tag under case folding; a string sets the field, null leaves *)
(* it, any other value is an UnmarshalTypeError (decoding goes on and the  *)
(* error is returned at the end); a later member overrides an earlier one. *)
(***************************************************************************)
FoldKey(k) ==
    CASE k \in {"type", "Type", "TYPE"} -> "type"
      [] k \in {"action", "Action", "ACTION"} -> "action"
      [] OTHER -> k

RECURSIVE FieldValue(_, _, _)
FieldValue(m, tag, cur) ==
    IF m = <<>> THEN cur
    ELSE LET k == Head(m)[1]
             v == Head(m)[2]
         IN  FieldValue(Tail(m), tag,
                        IF FoldKey(k) = tag /\ v.t = "str" THEN v.s ELSE cur)

FieldTypeError(m, tag) ==
    \E i \in 1..Len(m) : FoldKey(m[i][1]) = tag /\ m[i][2].t \notin {"str", "null"}

UnmarshalEvent(line) ==
    CASE line.t = "null" -> [err |-> FALSE, Type |-> <<>>, Action |-> <<>>]
      [] line.t = "obj" ->
            [err |-> FieldTypeError(line.m, "type") \/ FieldTypeError(line.m, "action"),
             Type |-> FieldValue(line.m, "type", <<>>),
             Action |-> FieldValue(line.m, "action", <<>>)]
      [] OTHER -> [err |-> TRUE, Type |-> <<>>, Action |-> <<>>]

ContainerActions ==
    {w_start, w_die, w_pause, w_unpause, w_create, w_destroy, w_rename, w_update}
NetworkActions == {w_create, w_destroy, w_connect, w_disconnect}

\* the classifier comparing the health action for equality, not by prefix
shouldKeepEvent_ExactHealth(line) ==
    LET event == UnmarshalEvent(line)
    IN  /\ ~event.err
        /\ \/ event.Type = w_container
              /\ event.Action \in ContainerActions \cup {w_health_status}
           \/ event.Type = w_network /\ event.Action \in NetworkActions

\* the classifier ending in "return true"
shouldKeepEvent_NoFilter(line) == ~UnmarshalEvent(line).err

shouldKeepEvent(line) ==
    LET event == UnmarshalEvent(line)
    IN  IF event.err THEN FALSE
        ELSE IF event.Type = w_container
                  /\ (\/ event.Action \in ContainerActions
                      \/ HasPrefix(event.Action, w_health_status))
             THEN TRUE
        ELSE IF event.Type = w_network /\ event.Action \in NetworkActions
             THEN TRUE
        ELSE FALSE

(***************************************************************************)
(* encoding/json, Decode into map[string]interface{} and Marshal of it.    *)
(* Decoded values: [t |-> "map", f |-> [keys -> value]], [t |-> "nil"],    *)
(* [t |-> "str"], [t |-> "slice"], [t |-> "f64", lit |-> shortest form].   *)
(* A number becomes a float64 and is written back in Go's shortest         *)
(* round-trip form; an object becomes a map (the last of two equal keys    *)
(* wins) and is written back with its keys sorted.                         *)
(***************************************************************************)
\* strconv.ParseFloat followed by strconv.FormatFloat(f, 'f', -1, 64)
F64Format(lit) ==
    CASE lit = "9223372036854771712" -> "9223372036854772000"
      [] lit = "1.0" -> "1"
      [] OTHER -> lit

\* the keys of the documents of the model, in the byte order Marshal sorts them
KeyOrder == <<"Config", "Env", "Id", "Image", "Memory", "message">>

MemberKeys(m) == {m[i][1] : i \in 1..Len(m)}
LastIndex(m, k) == CHOOSE i \in 1..Len(m) :
                      m[i][1] = k /\ \A j \in (i + 1)..Len(m) : m[j][1] # k

RECURSIVE DecodeValue(_)
DecodeValue(v) ==
    CASE v.t = "obj" ->
            [t |-> "map",
             f |-> [k \in MemberKeys(v.m) |-> DecodeValue(v.m[LastIndex(v.m, k)][2])]]
      [] v.t = "arr" -> [t |-> "slice", a |-> v.a]
      [] v.t = "str" -> [t |-> "str", s |-> v.s]
      [] v.t = "num" -> [t |-> "f64", lit |-> F64Format(v.lit)]
      [] OTHER -> [t |-> "nil"]

RECURSIVE MarshalValue(_)
MarshalValue(g) ==
    CASE g.t = "map" ->
            LET keys == SelectSeq(KeyOrder, LAMBDA k : k \in DOMAIN g.f)
            IN  Obj([i \in 1..Len(keys) |-> <<keys[i], MarshalValue(g.f[keys[i]])>>])
      [] g.t = "slice" -> Arr(g.a)
      [] g.t = "str" -> Str(g.s)
      [] g.t = "f64" -> Num(g.lit)
      [] OTHER -> Null

\* len() of the bytes json.Marshal writes for a text (compact, no escapes)
RECURSIVE SumLen(_)
SumLen(a) == IF a = <<>> THEN 0 ELSE Len(Head(a)) + 2 + SumLen(Tail(a))
Commas(n) == IF n > 0 THEN n - 1 ELSE 0
RECURSIVE ByteLen(_)
RECURSIVE MembersLen(_)
MembersLen(m) ==
    IF m = <<>> THEN 0
    ELSE Len(Head(m)[1]) + 3 + ByteLen(Head(m)[2]) + MembersLen(Tail(m))
ByteLen(v) ==
    CASE v.t = "obj" -> 2 + MembersLen(v.m) + Commas(Len(v.m))
      [] v.t = "arr" -> 2 + SumLen(v.a) + Commas(Len(v.a))
      [] v.t = "str" -> Len(v.s) + 2
      [] v.t = "num" -> Len(v.lit)
      [] v.t = "null" -> 4
      [] OTHER -> 8

\* json.NewDecoder(resp.Body).Decode(&data) with data map[string]interface{}:
\* an object or null decodes, anything else is an error
DecodeErr(text) == text.t \notin {"obj", "null"}

\* a redaction that removes one entry of Env on each pass
StripEnv_ClearOne(data) ==
    IF data.t = "map" /\ "Config" \in DOMAIN data.f /\ data.f["Config"].t = "map"
    THEN [data EXCEPT !.f["Config"].f =
             [k \in DOMAIN data.f["Config"].f \cup {"Env"} |->
                 IF k # "Env" THEN data.f["Config"].f[k]
                 ELSE IF /\ "Env" \in DOMAIN data.f["Config"].f
                         /\ data.f["Config"].f["Env"].t = "slice"
                         /\ data.f["Config"].f["Env"].a # <<>>
                      THEN [t |-> "slice", a |-> Tail(data.f["Config"].f["Env"].a)]
                 ELSE [t |-> "slice", a |-> <<>>]]]
    ELSE data

\* main.go 288-290: data["Config"].(map[string]interface{}) and config["Env"] = []string{}
StripEnv(data) ==
    IF data.t = "map" /\ "Config" \in DOMAIN data.f /\ data.f["Config"].t = "map"
    THEN [data EXCEPT !.f["Config"].f =
             [k \in DOMAIN data.f["Config"].f \cup {"Env"} |->
                 IF k = "Env" THEN [t |-> "slice", a |-> <<>>]
                 ELSE data.f["Config"].f[k]]]
    ELSE data

(***************************************************************************)
(* The request gate and the response sanitizer as decisions.               *)
(***************************************************************************)
MethodGet == <<"G", "E", "T">>
MethodPost == <<"P", "O", "S", "T">>
MethodDelete == <<"D", "E", "L", "E", "T", "E">>
MethodHead == <<"H", "E", "A", "D">>

StatusOK == 200
StatusForbidden == 403
StatusMethodNotAllowed == 405

\* the gate without its method check
authMiddleware_AnyMethod(method, path) ==
    IF ~allowedPaths(path) THEN StatusForbidden ELSE 0

\* the gate with its two checks in the other order
authMiddleware_PathFirst(method, path) ==
    IF ~allowedPaths(path) THEN StatusForbidden
    ELSE IF method # MethodGet THEN StatusMethodNotAllowed
    ELSE 0

\* main.go 212-227: what the handler does with a request
authMiddleware(method, path) ==
    IF method # MethodGet THEN StatusMethodNotAllowed
    ELSE IF ~allowedPaths(path) THEN StatusForbidden
    ELSE 0

\* the sanitizer testing for an inspection before the listing, without the
\* exclusion of "containers/json"
modifyResponse_InspectFirst(path) ==
    IF /\ Contains(path, w_slash \o w_containers \o w_slash)
       /\ HasSuffix(path, w_slash \o w_json)
    THEN "inspect"
    ELSE IF Contains(path, w_slash \o w_containers_json) THEN "list"
    ELSE IF Contains(path, w_slash \o w_events) THEN "events"
    ELSE "other"

\* main.go 231-272: the branch modifyResponse takes for a request path
modifyResponse(path) ==
    IF Contains(path, w_slash \o w_containers_json) THEN "list"
    ELSE IF /\ Contains(path, w_slash \o w_containers \o w_slash)
            /\ HasSuffix(path, w_slash \o w_json)
            /\ ~Contains(path, w_containers_json)
         THEN "inspect"
    ELSE IF Contains(path, w_slash \o w_events) THEN "events"
    ELSE "other"

(***************************************************************************)
(* Bodies.  A body is a sequence of lines; a line is                       *)
(*   [txt |-> JSON text, eol |-> "lf" | "crlf" | "", sz |-> bytes of the   *)
(*    line without its "\n"].                                              *)
(* A document body is one line.                                            *)
(***************************************************************************)
EolLen(eol) == IF eol = "" THEN 0 ELSE 1
Line(txt, eol) ==
    [txt |-> txt, eol |-> eol, sz |-> ByteLen(txt) + (IF eol = "crlf" THEN 1 ELSE 0)]
RECURSIVE BodyLen(_)
BodyLen(body) ==
    IF body = <<>> THEN 0
    ELSE Head(body).sz + EolLen(Head(body).eol) + BodyLen(Tail(body))

\* bufio.MaxScanTokenSize, the buffer limit of bufio.NewScanner
MaxScanTokenSize == 65536
TooLong(line) == line.sz >= MaxScanTokenSize
\* bufio.ScanLines: the line without its end-of-line marker
\* ("\n", with one preceding "\r" dropped); main.go 261 appends "\n"
ScanLines(line) ==
    [txt |-> line.txt, eol |-> "lf",
     sz |-> IF line.eol = "crlf" THEN line.sz - 1 ELSE line.sz]

\* a redactor that sets resp.ContentLength and leaves the header as it was
filterInspectResponse_StaleHeader(hdr, body) ==
    IF hdr.status # StatusOK THEN [err |-> FALSE, hdr |-> hdr, body |-> body]
    ELSE IF body = <<>> \/ DecodeErr(Head(body).txt)
         THEN [err |-> TRUE, hdr |-> hdr, body |-> body]
    ELSE LET newBody == MarshalValue(StripEnv(DecodeValue(Head(body).txt)))
         IN  [err |-> FALSE,
              hdr |-> [hdr EXCEPT !.clen = ByteLen(newBody)],
              body |-> << [txt |-> newBody, eol |-> "", sz |-> ByteLen(newBody)] >>]

\* main.go 276-303: filterInspectResponse on a response header and body;
\* err is the error returned, otherwise hdr/body are the response afterwards
filterInspectResponse(hdr, body) ==
    IF hdr.status # StatusOK THEN [err |-> FALSE, hdr |-> hdr, body |-> body]
    ELSE IF body = <<>> \/ DecodeErr(Head(body).txt)
         THEN [err |-> TRUE, hdr |-> hdr, body |-> body]
    ELSE LET newBody == MarshalValue(StripEnv(DecodeValue(Head(body).txt)))
         IN  [err |-> FALSE,
              hdr |-> [hdr EXCEPT !.clen = ByteLen(newBody), !.hlen = ByteLen(newBody)],
              body |-> << [txt |-> newBody, eol |-> "", sz |-> ByteLen(newBody)] >>]

(***************************************************************************)
(* State.  Every variable is a function of the request.                    *)
(***************************************************************************)
VARIABLES
    pc,         \* where the request's handler is
    req,        \* [method, path] of the inbound request
    dialed,     \* the backend socket was dialed for this request
    bresp,      \* [status, clen, hlen] as the backend returned them: clen is
                \* the ContentLength field, hlen the Content-Length header
                \* (-1 when the length is not known)
    upstream,   \* lines the backend has written to its response body so far
    upEOF,      \* the backend has ended its response body
    resp,       \* [status, clen, hlen, src] after modifyResponse; src is the body
                \* the proxy copies: "upstream", "pipe" or "buffer"
    buffer,     \* the body filterInspectResponse built
    pump,       \* the event goroutine: "none", "scan", "write", "done"
    scanPos,    \* upstream lines the scanner has consumed
    pending,    \* the line the goroutine is writing into the pipe
    closed,     \* closed ends: subset of {"pr", "pw", "body"}
    client      \* [status, clen, body, eof] as seen by the client; clen is the
                \* Content-Length header it was sent

vars == <<pc, req, dialed, bresp, upstream, upEOF, resp, buffer, pump, scanPos,
          pending, closed, client>>

Reqs == 1..NumReqs

NoReq == [method |-> <<>>, path |-> <<>>]
NoHdr == [status |-> 0, clen |-> 0, hlen |-> 0]
NoResp == [status |-> 0, clen |-> 0, hlen |-> 0, src |-> ""]
NoLine == [txt |-> Null, eol |-> "", sz |-> 0]
NoClient == [status |-> 0, clen |-> 0, body |-> <<>>, eof |-> FALSE]

Init ==
    /\ pc = [r \in Reqs |-> "idle"]
    /\ req = [r \in Reqs |-> NoReq]
    /\ dialed = [r \in Reqs |-> FALSE]
    /\ bresp = [r \in Reqs |-> NoHdr]
    /\ upstream = [r \in Reqs |-> <<>>]
    /\ upEOF = [r \in Reqs |-> FALSE]
    /\ resp = [r \in Reqs |-> NoResp]
    /\ buffer = [r \in Reqs |-> <<>>]
    /\ pump = [r \in Reqs |-> "none"]
    /\ scanPos = [r \in Reqs |-> 0]
    /\ pending = [r \in Reqs |-> NoLine]
    /\ closed = [r \in Reqs |-> {}]
    /\ client = [r \in Reqs |-> NoClient]

\* a request arrives on a listener
Arrive(r, m, p) ==
    /\ pc[r] = "idle"
    /\ req' = [req EXCEPT ![r] = [method |-> m, path |-> p]]
    /\ pc' = [pc EXCEPT ![r] = "gate"]
    /\ UNCHANGED <<dialed, bresp, upstream, upEOF, resp, buffer, pump, scanPos,
                   pending, closed, client>>

\* main.go 212-227: http.Error with 405 or 403, or next.ServeHTTP
Gate(r) ==
    /\ pc[r] = "gate"
    /\ LET code == authMiddleware(req[r].method, req[r].path)
       IN  IF code # 0
           THEN /\ client' = [client EXCEPT ![r] =
                       [status |-> code, clen |-> 0, body |-> <<>>, eof |-> TRUE]]
                /\ pc' = [pc EXCEPT ![r] = "done"]
           ELSE /\ pc' = [pc EXCEPT ![r] = "forward"]
                /\ UNCHANGED client
    /\ UNCHANGED <<req, dialed, bresp, upstream, upEOF, resp, buffer, pump, scanPos,
                   pending, closed>>

\* main.go 43-47: the transport dials the Docker socket and relays the request
Dial(r) ==
    /\ pc[r] = "forward"
    /\ dialed' = [dialed EXCEPT ![r] = TRUE]
    /\ pc' = [pc EXCEPT ![r] = "await"]
    /\ UNCHANGED <<req, bresp, upstream, upEOF, resp, buffer, pump, scanPos,
                   pending, closed, client>>

\* main.go 45: net.Dial fails; the reverse proxy answers 502
DialFail(r) ==
    /\ pc[r] = "forward"
    /\ client' = [client EXCEPT ![r] =
            [status |-> 502, clen |-> 0, body |-> <<>>, eof |-> TRUE]]
    /\ pc' = [pc EXCEPT ![r] = "done"]
    /\ UNCHANGED <<req, dialed, bresp, upstream, upEOF, resp, buffer, pump, scanPos,
                   pending, closed>>

\* the backend answers with a complete body
BackendRespond(r, status, body) ==
    /\ pc[r] = "await"
    /\ bresp' = [bresp EXCEPT ![r] = [status |-> status, clen |-> BodyLen(body), hlen |-> BodyLen(body)]]
    /\ upstream' = [upstream EXCEPT ![r] = body]
    /\ upEOF' = [upEOF EXCEPT ![r] = TRUE]
    /\ pc' = [pc EXCEPT ![r] = "modify"]
    /\ UNCHANGED <<req, dialed, resp, buffer, pump, scanPos, pending, closed, client>>

\* the backend answers an event request with a stream that stays open
BackendStream(r) ==
    /\ pc[r] = "await"
    /\ HasSuffix(req[r].path, w_slash \o w_events)
    /\ bresp' = [bresp EXCEPT ![r] = [status |-> StatusOK, clen |-> -1, hlen |-> -1]]
    /\ pc' = [pc EXCEPT ![r] = "modify"]
    /\ UNCHANGED <<req, dialed, upstream, upEOF, resp, buffer, pump, scanPos,
                   pending, closed, client>>

\* the backend writes one more line to an open stream
BackendEmit(r, line, maxLines) ==
    /\ dialed[r]
    /\ bresp[r].clen = -1
    /\ ~upEOF[r]
    /\ "body" \notin closed[r]
    /\ Len(upstream[r]) < maxLines
    /\ upstream' = [upstream EXCEPT ![r] = Append(@, line)]
    /\ UNCHANGED <<pc, req, dialed, bresp, upEOF, resp, buffer, pump, scanPos,
                   pending, closed, client>>

\* the backend ends an open stream
BackendEOF(r) ==
    /\ dialed[r]
    /\ bresp[r].clen = -1
    /\ ~upEOF[r]
    /\ upEOF' = [upEOF EXCEPT ![r] = TRUE]
    /\ UNCHANGED <<pc, req, dialed, bresp, upstream, resp, buffer, pump, scanPos,
                   pending, closed, client>>

\* main.go 230-273 as the reverse proxy calls it; an error makes the proxy
\* close the backend body and answer 502
ModifyResponse(r) ==
    /\ pc[r] = "modify"
    /\ LET route == modifyResponse(req[r].path)
           res == filterInspectResponse(bresp[r], upstream[r])
           asIs == [status |-> bresp[r].status, clen |-> bresp[r].clen,
                    hlen |-> bresp[r].hlen, src |-> "upstream"]
       IN  CASE route = "inspect" /\ res.err ->
                  /\ upEOF[r]
                  /\ client' = [client EXCEPT ![r] =
                        [status |-> 502, clen |-> 0, body |-> <<>>, eof |-> TRUE]]
                  /\ closed' = [closed EXCEPT ![r] = @ \cup {"body"}]
                  /\ pc' = [pc EXCEPT ![r] = "done"]
                  /\ UNCHANGED <<resp, buffer, pump>>
             [] route = "inspect" /\ ~res.err /\ bresp[r].status = StatusOK ->
                  /\ upEOF[r]
                  /\ buffer' = [buffer EXCEPT ![r] = res.body]
                  /\ resp' = [resp EXCEPT ![r] =
                        [status |-> res.hdr.status, clen |-> res.hdr.clen,
                         hlen |-> res.hdr.hlen, src |-> "buffer"]]
                  /\ closed' = [closed EXCEPT ![r] = @ \cup {"body"}]
                  /\ pc' = [pc EXCEPT ![r] = "copy"]
                  /\ UNCHANGED <<client, pump>>
             [] route = "events" ->
                  /\ pump' = [pump EXCEPT ![r] = "scan"]
                  /\ resp' = [resp EXCEPT ![r] = [asIs EXCEPT !.src = "pipe"]]
                  /\ pc' = [pc EXCEPT ![r] = "copy"]
                  /\ UNCHANGED <<client, buffer, closed>>
             [] OTHER ->
                  /\ resp' = [resp EXCEPT ![r] = asIs]
                  /\ pc' = [pc EXCEPT ![r] = "copy"]
                  /\ UNCHANGED <<client, buffer, pump, closed>>
    /\ UNCHANGED <<req, dialed, bresp, upstream, upEOF, scanPos, pending>>

\* the reverse proxy writes the header and copies resp.Body to the client;
\* a pipe is copied line by line as the goroutine writes (ClientRead)
CopyResponse(r) ==
    /\ pc[r] = "copy"
    /\ CASE resp[r].src = "pipe" ->
              /\ client' = [client EXCEPT ![r] =
                    [status |-> resp[r].status, clen |-> resp[r].hlen,
                     body |-> <<>>, eof |-> FALSE]]
              /\ pc' = [pc EXCEPT ![r] = "stream"]
              /\ UNCHANGED closed
         [] resp[r].src = "buffer" ->
              /\ client' = [client EXCEPT ![r] =
                    [status |-> resp[r].status, clen |-> resp[r].hlen,
                     body |-> buffer[r], eof |-> TRUE]]
              /\ pc' = [pc EXCEPT ![r] = "done"]
              /\ UNCHANGED closed
         [] OTHER ->
              /\ upEOF[r]
              /\ client' = [client EXCEPT ![r] =
                    [status |-> resp[r].status, clen |-> resp[r].hlen,
                     body |-> upstream[r], eof |-> TRUE]]
              /\ closed' = [closed EXCEPT ![r] = @ \cup {"body"}]
              /\ pc' = [pc EXCEPT ![r] = "done"]
    /\ UNCHANGED <<req, dialed, bresp, upstream, upEOF, resp, buffer, pump, scanPos,
                   pending>>

\* the loop returning on a line that does not decode
pumpLoop_StopOnMalformed(line) ==
    IF TooLong(line) \/ UnmarshalEvent(ScanLines(line).txt).err THEN "stop"
    ELSE IF shouldKeepEvent(ScanLines(line).txt) THEN "write"
    ELSE "next"

\* main.go 258-264: what one turn of the loop does with the next upstream
\* line: scanner.Scan() fails on a line that does not fit the buffer, a kept
\* line is written to the pipe, any other line is skipped
pumpLoop(line) ==
    IF TooLong(line) THEN "stop"
    ELSE IF shouldKeepEvent(ScanLines(line).txt) THEN "write"
    ELSE "next"

\* a loop that hands a kept line to a queue and scans on without waiting
scanReady_NoWait(state) == state \in {"scan", "write"}

\* main.go 258-261: the loop calls scanner.Scan() again only after pw.Write
\* has returned
scanReady(state) == state = "scan"

\* main.go 257-265: one turn of the loop; main.go 254-255: the deferred closes
\* when the loop ends
PumpScan(r) ==
    /\ scanReady(pump[r])
    /\ IF scanPos[r] < Len(upstream[r])
       THEN LET line == upstream[r][scanPos[r] + 1]
                turn == pumpLoop(line)
            IN  IF turn = "stop"
                THEN /\ pump' = [pump EXCEPT ![r] = "done"]
                     /\ closed' = [closed EXCEPT ![r] = @ \cup {"pw", "body"}]
                     /\ UNCHANGED <<scanPos, pending>>
                ELSE /\ scanPos' = [scanPos EXCEPT ![r] = @ + 1]
                     /\ IF turn = "write"
                        THEN /\ pump' = [pump EXCEPT ![r] = "write"]
                             /\ pending' = [pending EXCEPT ![r] = ScanLines(line)]
                        ELSE UNCHANGED <<pump, pending>>
                     /\ UNCHANGED closed
       ELSE /\ upEOF[r]
            /\ pump' = [pump EXCEPT ![r] = "done"]
            /\ closed' = [closed EXCEPT ![r] = @ \cup {"pw", "body"}]
            /\ UNCHANGED <<scanPos, pending>>
    /\ UNCHANGED <<pc, req, dialed, bresp, upstream, upEOF, resp, buffer, client>>

\* a pipe that hands the newest line over first
pipeRead_Prepend(body, line) == <<line>> \o body

\* main.go 261 and 268: what the reader of the pipe holds after one more
\* pw.Write has been taken
pipeRead(body, line) == Append(body, line)

\* main.go 261: pw.Write returns once the reader has taken the line
ClientRead(r) ==
    /\ pc[r] = "stream"
    /\ pump[r] = "write"
    /\ "pr" \notin closed[r]
    /\ client' = [client EXCEPT ![r].body = pipeRead(@, pending[r])]
    /\ pending' = [pending EXCEPT ![r] = NoLine]
    /\ pump' = [pump EXCEPT ![r] = "scan"]
    /\ UNCHANGED <<pc, req, dialed, bresp, upstream, upEOF, resp, buffer, scanPos,
                   closed>>

\* a loop that ignores the error of pw.Write and goes on scanning
PumpWriteFail_Continue(r) ==
    /\ pump[r] = "write"
    /\ "pr" \in closed[r]
    /\ pump' = [pump EXCEPT ![r] = "scan"]
    /\ pending' = [pending EXCEPT ![r] = NoLine]
    /\ UNCHANGED <<pc, req, dialed, bresp, upstream, upEOF, resp, buffer, scanPos,
                   closed, client>>

\* main.go 261-263: pw.Write fails because the read end is closed
PumpWriteFail(r) ==
    /\ pump[r] = "write"
    /\ "pr" \in closed[r]
    /\ pump' = [pump EXCEPT ![r] = "done"]
    /\ pending' = [pending EXCEPT ![r] = NoLine]
    /\ closed' = [closed EXCEPT ![r] = @ \cup {"pw", "body"}]
    /\ UNCHANGED <<pc, req, dialed, bresp, upstream, upEOF, resp, buffer, scanPos,
                   client>>

\* main.go 255: the pipe's write end is closed, the copy ends, the handler returns
StreamEnd(r) ==
    /\ pc[r] = "stream"
    /\ "pw" \in closed[r]
    /\ client' = [client EXCEPT ![r].eof = TRUE]
    /\ closed' = [closed EXCEPT ![r] = @ \cup {"pr"}]
    /\ pc' = [pc EXCEPT ![r] = "done"]
    /\ UNCHANGED <<req, dialed, bresp, upstream, upEOF, resp, buffer, pump, scanPos,
                   pending>>

\* the client goes away mid-stream: the copy fails, the proxy closes resp.Body
\* (the pipe's read end) and the handler returns
ClientClose(r) ==
    /\ pc[r] = "stream"
    /\ closed' = [closed EXCEPT ![r] = @ \cup {"pr"}]
    /\ pc' = [pc EXCEPT ![r] = "done"]
    /\ UNCHANGED <<req, dialed, bresp, upstream, upEOF, resp, buffer, pump, scanPos,
                   pending, client>>

\* a proxy whose outbound request does not carry the inbound request's context
ReadCancelled_Never(r) ==
    /\ FALSE
    /\ UNCHANGED vars

\* main.go 38-49: the outbound request carries the inbound request's context;
\* once the handler has returned the transport aborts the backend read, so
\* scanner.Scan() returns false
ReadCancelled(r) ==
    /\ pump[r] = "scan"
    /\ pc[r] = "done"
    /\ pump' = [pump EXCEPT ![r] = "done"]
    /\ closed' = [closed EXCEPT ![r] = @ \cup {"pw", "body"}]
    /\ UNCHANGED <<pc, req, dialed, bresp, upstream, upEOF, resp, buffer, scanPos,
                   pending, client>>

(***************************************************************************)
(* Inputs.                                                                 *)
(***************************************************************************)
Methods == {MethodGet, MethodPost, MethodDelete, MethodHead}

PathOf(segments) ==
    LET RECURSIVE Join(_)
        Join(ss) == IF ss = <<>> THEN <<>> ELSE w_slash \o Head(ss) \o Join(Tail(ss))
    IN  Join(segments)

w_abc == <<"a", "b", "c">>
w_exec == <<"e", "x", "e", "c">>
w_v141 == <<"v", "1", ".", "4", "1">>
w_events_containers == w_events \o <<"-">> \o w_containers

\* the routes of the README, bare and version-prefixed, an identifier for each
\* way modifyResponse can read it, and one denied path
Paths ==
    { PathOf(<<w_version>>), PathOf(<<w_ping>>), PathOf(<<w_events>>),
      PathOf(<<w_containers, w_json>>),
      PathOf(<<w_containers, w_abc, w_json>>),
      PathOf(<<w_v141, w_version>>), PathOf(<<w_v141, w_events>>),
      PathOf(<<w_v141, w_containers, w_json>>),
      PathOf(<<w_v141, w_containers, w_abc, w_json>>),
      PathOf(<<w_containers, w_json, w_json>>),
      PathOf(<<w_containers, w_containers, w_json>>),
      PathOf(<<w_containers, w_events, w_json>>),
      PathOf(<<w_containers, <<"x">> \o w_containers, w_json>>),
      PathOf(<<w_containers, w_events_containers, w_json>>),
      PathOf(<<w_containers, w_abc, w_exec>>) }

\* paths that probe every part of the expression
AuthPaths ==
    Paths \cup
    { <<>>, w_version, w_slash, PathOf(<<w_version, <<>> >>),
      PathOf(<<w_version \o <<"x">> >>), PathOf(<<<<"x">> \o w_version>>),
      PathOf(<<<<"v">>, w_version>>), PathOf(<<<<"v", "1">>, w_version>>),
      PathOf(<<<<"v", ".">>, w_version>>), PathOf(<<<<"v", "1", ".">>, w_version>>),
      PathOf(<<<<"v", ".", "1">>, w_version>>),
      PathOf(<<<<"v", "1", ".", ".", "2">>, w_events>>),
      PathOf(<<<<"v", "1", ".", "2", ".", "3">>, w_ping>>),
      PathOf(<<<<"V", "1">>, w_version>>), PathOf(<<<<"v", "1", "a">>, w_version>>),
      PathOf(<<<<"1", ".", "4", "1">>, w_version>>),
      PathOf(<<<<"x">>, w_version>>),
      PathOf(<<<<"v", "1">>, <<"v", "2">>, w_version>>),
      PathOf(<<<<"v", "1">>>>), PathOf(<<<<"v", "1">>, <<>> >>),
      PathOf(<<<<>>, w_version>>),
      PathOf(<<w_containers>>), PathOf(<<w_containers, <<>>, w_json>>),
      PathOf(<<w_containers, <<"a", " ", "b">>, w_json>>),
      PathOf(<<w_containers, <<"a", "%", "2", "F">>, w_json>>),
      PathOf(<<w_containers, <<"A", "_", "b", ".", "c", "-", "1">>, w_json>>),
      PathOf(<<w_containers, <<".", ".">>, w_json>>),
      PathOf(<<w_containers, w_abc, w_abc, w_json>>),
      PathOf(<<w_containers, w_abc, w_json, w_exec>>),
      PathOf(<<w_containers, w_abc, w_json, <<>> >>),
      PathOf(<<w_containers, w_abc, w_json \o <<"x">> >>),
      PathOf(<<w_containers, w_abc>>),
      PathOf(<<w_containers, <<"c", "r", "e", "a", "t", "e">> >>),
      PathOf(<<w_v141, w_containers, w_abc, w_exec>>),
      PathOf(<<<<"i", "m", "a", "g", "e", "s">>, w_json>>),
      PathOf(<<w_events, w_abc>>), PathOf(<<w_abc, w_events>>),
      PathOf(<<<<"s", "e", "c", "r", "e", "t", "s">> >>) }

BackendStatuses == {200, 404}

\* inspection documents and other bodies a backend returns
DocSecret ==
    Obj(<< <<"Id", Str("abc")>>,
           <<"Config", Obj(<< <<"Env", Arr(<<"SECRET=1">>)>>, <<"Image", Str("x")>> >>)>> >>)
DocEnvEmpty ==
    Obj(<< <<"Config", Obj(<< <<"Env", Arr(<<>>)>> >>)>>, <<"Id", Str("abc")>> >>)
DocEnvAbsent == Obj(<< <<"Id", Str("abc")>>, <<"Config", Obj(<< <<"Image", Str("x")>> >>)>> >>)
DocNoConfig == Obj(<< <<"Id", Str("abc")>>, <<"Memory", Num("9223372036854771712")>> >>)
DocConfigString == Obj(<< <<"Config", Str("x")>> >>)
DocError == Obj(<< <<"message", Str("No such container: abc")>> >>)
DocList == Arr(<<"c1", "c2">>)
DocTwoEnv ==
    Obj(<< <<"Config", Obj(<< <<"Env", Arr(<<"A=1", "B=2">>)>>,
                             <<"Memory", Num("1.0")>> >>)>>,
           <<"Id", Str("abc")>> >>)
DocNull == Null
Docs == {DocSecret, DocEnvEmpty, DocEnvAbsent, DocNoConfig, DocConfigString,
         DocError, DocList, Bad, DocTwoEnv, DocNull}
Bodies == {<< Line(d, "lf") >> : d \in Docs}

Event(typeKey, type, actionKey, action) ==
    Obj(<< <<typeKey, Str(type)>>, <<actionKey, Str(action)>> >>)
w_image == <<"i", "m", "a", "g", "e">>
w_pull == <<"p", "u", "l", "l">>
w_healthy == w_health_status \o <<":", " ", "h", "e", "a", "l", "t", "h", "y">>
w_exec_create == w_exec \o <<"_">> \o w_create

\* event lines of a stream: kept, dropped, malformed, CRLF-terminated, oversized
Lines ==
    { Line(Event("Type", w_container, "Action", w_start), "lf"),
      Line(Event("Type", w_network, "Action", w_connect), "lf"),
      Line(Event("Type", w_image, "Action", w_pull), "lf"),
      Line(Bad, "lf"),
      Line(Event("Type", w_container, "Action", w_die), "crlf"),
      [Line(Event("Type", w_container, "Action", w_healthy), "lf") EXCEPT !.sz = 70000] }

\* lines that probe every part of shouldKeepEvent
ClassifyTypes == {w_container, w_network, w_image, <<"C">> \o Tail(w_container), <<>>}
ClassifyActions ==
    ContainerActions \cup NetworkActions \cup
    { w_health_status, w_healthy, SubSeq(w_health_status, 1, 12),
      <<"x">> \o w_health_status, w_exec_create, w_pull, w_start \o <<"s">>, <<>> }
ClassifyTexts ==
    { Event("Type", ty, "Action", ac) : ty \in ClassifyTypes, ac \in ClassifyActions }
    \cup
    { Event("type", w_container, "action", w_start),
      Event("type", w_container, "action", w_exec_create),
      Event("type", w_container, "action", w_healthy),
      Event("type", w_network, "action", w_connect),
      Event("type", w_image, "action", w_pull),
      Event("type", w_network, "Action", w_start) }
    \cup
    { Bad, Null, Arr(<<>>), Str(w_container), Num("1"), Obj(<<>>),
      Obj(<< <<"Type", Str(w_container)>> >>),
      Obj(<< <<"Action", Str(w_start)>> >>),
      Obj(<< <<"Type", Num("1")>>, <<"Action", Str(w_start)>> >>),
      Obj(<< <<"Type", Str(w_container)>>, <<"Action", Arr(<<>>)>> >>),
      Obj(<< <<"Type", Str(w_container)>>, <<"Action", Null>> >>),
      Obj(<< <<"Type", Str(w_image)>>, <<"Type", Str(w_container)>>,
             <<"Action", Str(w_start)>> >>),
      Obj(<< <<"Type", Str(w_container)>>, <<"Type", Str(w_image)>>,
             <<"Action", Str(w_start)>> >>),
      Obj(<< <<"status", Str(w_start)>>, <<"id", Str(w_abc)>>,
             <<"Type", Str(w_container)>>, <<"Action", Str(w_start)>>,
             <<"scope", Str(<<"l">>)>> >>),
      Obj(<< <<"Kind", Str(w_container)>>, <<"Action", Str(w_start)>> >>) }
ClassifyLines == {Line(t, "lf") : t \in ClassifyTexts}

ConcPaths == { PathOf(<<w_events>>), PathOf(<<w_containers, w_abc, w_json>>),
               PathOf(<<w_containers, w_abc, w_exec>>) }
\* the event route and an inspection whose identifier begins with "events"
\* and ends with "containers"
StreamPaths == { PathOf(<<w_events>>),
                 PathOf(<<w_containers, w_events_containers, w_json>>) }
ConcLines == { Line(Event("Type", w_container, "Action", w_start), "lf") }
\* the event the backend writes on the response of request r: every response
\* carries its own actor id, so that a line tells which response it came from
ActorId(r) == <<"c", <<"1", "2", "3", "4", "5", "6", "7", "8", "9">>[r]>>
ConcLinesOf(r) ==
    { Line(Obj(<< <<"Type", Str(w_container)>>, <<"Action", Str(w_start)>>,
                  <<"id", Str(ActorId(r))>> >>), "lf") }

(***************************************************************************)
(* Specifications.  One step of the system for requests R, with the        *)
(* environment's choices drawn from the given sets; L[r] is the set of     *)
(* lines the backend may write on the response of request r.               *)
(***************************************************************************)
Step(R, M, P, S, B, L, maxLines) ==
    \E r \in R :
        \/ \E m \in M, p \in P : Arrive(r, m, p)
        \/ Gate(r)
        \/ Dial(r)
        \/ DialFail(r)
        \/ \E st \in S, b \in B : BackendRespond(r, st, b)
        \/ BackendStream(r)
        \/ \E l \in L[r] : BackendEmit(r, l, maxLines)
        \/ BackendEOF(r)
        \/ ModifyResponse(r)
        \/ CopyResponse(r)
        \/ PumpScan(r)
        \/ ClientRead(r)
        \/ PumpWriteFail(r)
        \/ StreamEnd(r)
        \/ ClientClose(r)
        \/ ReadCancelled(r)

\* one request, every route, document and kind of event line
Next ==
    Step({1}, {MethodGet, MethodPost}, Paths, BackendStatuses, Bodies,
         [r \in Reqs |-> Lines], MaxLines)
Spec == Init /\ [][Next]_vars

\* the goroutine of main.go 253 is scheduled while it can take a step, and
\* the transport acts on a cancelled request
Fairness(R) ==
    \A r \in R : /\ WF_vars(PumpScan(r))
                 /\ WF_vars(PumpWriteFail(r))
                 /\ WF_vars(ReadCancelled(r))
\* one event stream with kept, dropped and malformed lines
LiveLines ==
    { Line(Event("Type", w_container, "Action", w_start), "lf"),
      Line(Event("Type", w_image, "Action", w_pull), "lf"),
      Line(Bad, "lf") }
NextLive ==
    Step({1}, {MethodGet}, {PathOf(<<w_events>>), PathOf(<<w_v141, w_events>>)},
         BackendStatuses, {<< Line(DocError, "lf") >>},
         [r \in Reqs |-> LiveLines], MaxLines)
SpecLive == Init /\ [][NextLive]_vars /\ Fairness({1})

\* one request, every method and probing path
NextAuth ==
    Step({1}, Methods, AuthPaths, {200}, {<< Line(DocSecret, "lf") >>},
         [r \in Reqs |-> ConcLines], MaxConcLines)
SpecAuth == Init /\ [][NextAuth]_vars

\* one event stream, every probing line
NextClassify ==
    Step({1}, {MethodGet}, {PathOf(<<w_events>>)}, {200}, {<< Line(DocError, "lf") >>},
         [r \in Reqs |-> ClassifyLines], MaxClassifyLines)
SpecClassify == Init /\ [][NextClassify]_vars

\* concurrent requests
NextConc ==
    Step(Reqs, {MethodGet, MethodPost}, ConcPaths, {200}, {<< Line(DocSecret, "lf") >>},
         [r \in Reqs |-> ConcLines], MaxConcLines)
SpecConc == Init /\ [][NextConc]_vars

\* two concurrent forwarded requests, each backend response writing its own
\* lines
StreamReqs == {1, 2}
NextStreams ==
    Step(StreamReqs, {MethodGet}, StreamPaths, {200}, {<< Line(DocSecret, "lf") >>},
         [r \in Reqs |-> ConcLinesOf(r)], MaxConcLines)
SpecStreams == Init /\ [][NextStreams]_vars

(***************************************************************************)
(* Properties.                                                             *)
(***************************************************************************)
Arrived(r) == pc[r] \notin {"idle", "gate"}
\* the gate handed the request to the reverse proxy
Forwarded(r) == pc[r] = "forward" \/ dialed[r] \/ client[r].status = 502
Denied(r) == Arrived(r) /\ ~Forwarded(r)

\* C1: the backend socket is dialed only for a request whose method is GET and
\* whose path the allowlist expression matches; a request the gate has denied
\* never has a backend connection, a backend response or a pump, whatever the
\* other requests are doing.
C1_BackendOnlyForAllowed ==
    \A r \in Reqs :
        /\ dialed[r] => req[r].method = MethodGet /\ allowedPaths(req[r].path)
        /\ Denied(r) =>
              /\ ~dialed[r]
              /\ bresp[r] = NoHdr /\ upstream[r] = <<>> /\ pump[r] = "none"
              /\ client[r].status \in {StatusForbidden, StatusMethodNotAllowed}
              /\ client[r].body = <<>>

\* one request was denied while the backend is serving another
C1_Witness ==
    \E r, q \in Reqs :
        /\ dialed[r] /\ upstream[r] # <<>>
        /\ Denied(q) /\ req[q].method = MethodGet /\ pc[q] = "done"

\* C2: the gate gives one of three outcomes: a method other than GET is
\* answered 405 whatever the path, a GET of a path the expression does not
\* match is answered 403, and a GET of a matching path is forwarded.
C2_ThreeOutcomes ==
    \A r \in Reqs : Arrived(r) =>
        IF req[r].method # MethodGet
        THEN Denied(r) /\ client[r].status = StatusMethodNotAllowed
        ELSE IF ~allowedPaths(req[r].path)
        THEN Denied(r) /\ client[r].status = StatusForbidden
        ELSE Forwarded(r) /\ client[r].status \notin {StatusForbidden, StatusMethodNotAllowed}

\* a request with neither the method nor the path allowed was answered 405
C2_Witness ==
    \E r \in Reqs :
        /\ req[r].method = MethodDelete
        /\ req[r].path = PathOf(<<w_containers, w_abc, w_exec>>)
        /\ client[r].status = StatusMethodNotAllowed

\* the version segment as documented: v<digits>[.<digits>]*
ClaimVersionSegment(seg) ==
    /\ Len(seg) >= 2
    /\ seg[1] = "v"
    /\ AllIn(Tail(seg), Digit \cup {"."})
    /\ seg[2] \in Digit /\ seg[Len(seg)] \in Digit
    /\ \A i \in 2..(Len(seg) - 1) : ~(seg[i] = "." /\ seg[i + 1] = ".")

\* a path cut at its slashes: "/a/b" is <<a, b>>; no leading slash gives <<>>
RECURSIVE SplitSegments(_)
SplitSegments(path) ==
    IF path = <<>> \/ Head(path) # "/" THEN <<>>
    ELSE LET rest == Tail(path)
             ends == {i \in 1..Len(rest) : rest[i] = "/"}
             n == IF ends = {} THEN Len(rest)
                  ELSE (CHOOSE i \in ends : \A j \in ends : i <= j) - 1
         IN  <<SubSeq(rest, 1, n)>> \o SplitSegments(SubSeq(rest, n + 1, Len(rest)))

IsPath(path) == path # <<>> /\ Head(path) = "/"

\* the segments of a path after at most one documented version segment
ClaimRoute(path) ==
    LET segs == SplitSegments(path)
    IN  IF segs # <<>> /\ ClaimVersionSegment(Head(segs)) THEN Tail(segs) ELSE segs

ClaimInspect(path) ==
    LET route == ClaimRoute(path)
    IN  /\ IsPath(path) /\ Len(route) = 3
        /\ route[1] = w_containers /\ route[3] = w_json
        /\ route[2] # <<>> /\ AllIn(route[2], IdChars)

ClaimAllowed(path) ==
    /\ IsPath(path)
    /\ \/ ClaimRoute(path) \in {<<w_version>>, <<w_ping>>, <<w_events>>,
                                <<w_containers, w_json>>}
       \/ ClaimInspect(path)

\* C3: the authorizer lets a GET path through if and only if the whole path is
\* /version, /_ping, /events, /containers/json or /containers/{id}/json with
\* {id} in [a-zA-Z0-9_.-]+, after at most one segment v<digits>[.<digits>]*.
C3_AllowlistExact ==
    \A r \in Reqs : Arrived(r) /\ req[r].method = MethodGet =>
        (Forwarded(r) <=> ClaimAllowed(req[r].path))

\* the last member of an object with one of the given keys, Null when absent
ClaimMember(m, keys) ==
    LET idx == {i \in 1..Len(m) : m[i][1] \in keys}
    IN  IF idx = {} THEN Null
        ELSE m[CHOOSE i \in idx : \A j \in idx : j <= i][2]

HasConfigObject(text) ==
    text.t = "obj" /\ ClaimMember(text.m, {"Config"}).t = "obj"
EnvIsEmpty(text) ==
    /\ HasConfigObject(text)
    /\ ClaimMember(ClaimMember(text.m, {"Config"}).m, {"Env"}) = Arr(<<>>)

\* C4: for every allowlisted GET [/v<version>]/containers/{id}/json, whatever
\* the identifier, a 200 backend response whose body has a top-level Config
\* object reaches the client with Config.Env equal to the empty sequence.
C4_InspectEnvRedacted ==
    \A r \in Reqs :
        /\ req[r].method = MethodGet /\ ClaimInspect(req[r].path)
        /\ bresp[r].status = StatusOK
        /\ upstream[r] # <<>> /\ HasConfigObject(upstream[r][1].txt)
        /\ pc[r] = "done" /\ client[r].status = StatusOK
        => /\ Len(client[r].body) = 1
           /\ EnvIsEmpty(client[r].body[1].txt)

\* C5: on every allowlisted route a backend response whose status is not 200
\* reaches the client with its length and body as the backend sent them.
C5_ErrorBodiesUntouched ==
    \A r \in Reqs :
        /\ dialed[r] /\ bresp[r].status \notin {0, StatusOK}
        /\ client[r].eof /\ client[r].status = bresp[r].status
        => /\ client[r].body = upstream[r]
           /\ client[r].clen = bresp[r].clen

\* the documented keep rule
ClaimKeep(text) ==
    /\ text.t = "obj"
    /\ LET ty == ClaimMember(text.m, {"Type", "type"})
           ac == ClaimMember(text.m, {"Action", "action"})
       IN  /\ ty.t = "str" /\ ac.t = "str"
           /\ \/ /\ ty.s = w_container
                 /\ \/ ac.s \in {w_start, w_die, w_pause, w_unpause, w_create,
                                 w_destroy, w_rename, w_update}
                    \/ HasPrefix(ac.s, w_health_status)
              \/ /\ ty.s = w_network
                 /\ ac.s \in {w_create, w_destroy, w_connect, w_disconnect}

IsPrefix(a, b) == Len(a) <= Len(b) /\ SubSeq(b, 1, Len(a)) = a
Txts(body) == [i \in 1..Len(body) |-> body[i].txt]
\* the lines the goroutine has handed or is handing to the pipe
Written(r) == client[r].body \o (IF pump[r] = "write" THEN <<pending[r]>> ELSE <<>>)
Scanned(r) == SubSeq(upstream[r], 1, scanPos[r])
\* the client did not go away before the stream ended
ClientStayed(r) == client[r].eof \/ "pr" \notin closed[r]

ClaimType(text) ==
    IF text.t = "obj" /\ ClaimMember(text.m, {"Type", "type"}).t = "str"
    THEN ClaimMember(text.m, {"Type", "type"}).s
    ELSE <<>>

C8_DeliveredIsPrefixOfKept ==
    \A r \in Reqs : pump[r] # "none" =>
        IsPrefix(Txts(client[r].body), SelectSeq(Txts(upstream[r]), shouldKeepEvent))

\* two different kept lines were delivered around a dropped one
C8_Witness ==
    \E r \in Reqs :
        /\ Len(upstream[r]) = 3 /\ Len(client[r].body) = 2
        /\ ~shouldKeepEvent(upstream[r][2].txt)
        /\ client[r].body[1].txt # client[r].body[2].txt

\* C9: a line that does not decode is dropped and the stream goes on: when a
\* stream has ended with the client still reading, and no line exceeded the
\* scanner's buffer, every upstream line the classifier keeps was delivered,
\* those after a malformed line included.
C9_MalformedLineDoesNotEndStream ==
    \A r \in Reqs :
        /\ resp[r].src = "pipe" /\ client[r].eof
        /\ \A i \in 1..Len(upstream[r]) : ~TooLong(upstream[r][i])
        => Txts(client[r].body) = SelectSeq(Txts(upstream[r]), shouldKeepEvent)

\* a line emitted after a malformed one was delivered
C9_Witness ==
    \E r \in Reqs :
        /\ client[r].eof /\ Len(upstream[r]) = 3
        /\ upstream[r][1].txt = Bad /\ upstream[r][2].txt = Bad
        /\ Txts(client[r].body) = <<upstream[r][3].txt>>

ClaimPassThrough(path) ==
    /\ IsPath(path)
    /\ ClaimRoute(path) \in {<<w_version>>, <<w_ping>>, <<w_containers, w_json>>}

\* C10: a response to an allowlisted GET of /containers/json, /version or
\* /_ping, with or without version prefix, reaches the client with the
\* status, length and body the backend returned; no body is rebuilt and no
\* goroutine is started for it.
C10_PassThroughUnmodified ==
    \A r \in Reqs : req[r].method = MethodGet /\ ClaimPassThrough(req[r].path) =>
        /\ pump[r] = "none" /\ buffer[r] = <<>>
        /\ pc[r] = "copy" => resp[r] = [status |-> bresp[r].status,
                                         clen |-> bresp[r].clen,
                                         hlen |-> bresp[r].hlen, src |-> "upstream"]
        /\ pc[r] = "done" /\ bresp[r].status # 0 =>
              client[r] = [status |-> bresp[r].status, clen |-> bresp[r].clen,
                           body |-> upstream[r], eof |-> TRUE]

\* a version-prefixed listing of two containers was delivered as returned
C10_Witness ==
    \E r \in Reqs :
        /\ req[r].path = PathOf(<<w_v141, w_containers, w_json>>)
        /\ pc[r] = "done" /\ client[r].status = StatusOK
        /\ client[r].body = << Line(DocList, "lf") >>

\* the value a JSON text denotes: an object is its keys with the value of each
\* (the last of two equal keys), a number is the number it writes
ClaimNumber(lit) == IF lit = "1.0" THEN "1" ELSE lit
RECURSIVE ClaimValue(_)
ClaimValue(text) ==
    CASE text.t = "obj" ->
            [t |-> "obj",
             f |-> [k \in MemberKeys(text.m) |-> ClaimValue(ClaimMember(text.m, {k}))]]
      [] text.t = "num" -> [t |-> "num", v |-> ClaimNumber(text.lit)]
      [] OTHER -> text

\* the documented redaction, on values
ClaimRedact(val) ==
    IF val.t = "obj" /\ "Config" \in DOMAIN val.f /\ val.f["Config"].t = "obj"
    THEN [val EXCEPT !.f["Config"].f =
             [k \in DOMAIN val.f["Config"].f \cup {"Env"} |->
                 IF k = "Env" THEN Arr(<<>>) ELSE val.f["Config"].f[k]]]
    ELSE val

\* C11: the body the redactor builds denotes the backend's document with
\* Config.Env set to the empty sequence when there is a top-level Config
\* object (Env populated, empty or absent), every other top-level key and
\* every other key of Config keeping its value; without a top-level Config
\* object it denotes the backend's document unchanged.
C11_RedactionRewritesOnlyEnv ==
    \A r \in Reqs : resp[r].src = "buffer" =>
        /\ Len(buffer[r]) = 1 /\ Len(upstream[r]) = 1
        /\ ClaimValue(buffer[r][1].txt) = ClaimRedact(ClaimValue(upstream[r][1].txt))

\* C12: redaction is idempotent: running the redactor again on the body it
\* has built, under the header it has set, succeeds and gives back that same
\* body and header.
C12_RedactionIdempotent ==
    \A r \in Reqs : resp[r].src = "buffer" =>
        LET hdr == [status |-> resp[r].status, clen |-> resp[r].clen,
                    hlen |-> resp[r].hlen]
            again == filterInspectResponse(hdr, buffer[r])
        IN  ~again.err /\ again.body = buffer[r] /\ again.hdr = hdr

\* a document whose two Env entries were removed and whose number was
\* rewritten by the first pass
C12_Witness ==
    \E r \in Reqs :
        /\ resp[r].src = "buffer" /\ upstream[r] = << Line(DocTwoEnv, "lf") >>
        /\ EnvIsEmpty(buffer[r][1].txt)
        /\ buffer[r][1].txt # DocTwoEnv

\* C13: when the backend answers 200 on an inspection route with a body that
\* is not a JSON object, the client is answered with a 5xx status and is
\* delivered no part of the backend's body.
C13_ParseFailureIsError ==
    \A r \in Reqs :
        /\ req[r].method = MethodGet /\ ClaimInspect(req[r].path)
        /\ bresp[r].status = StatusOK
        /\ upstream[r] # <<>> /\ upstream[r][1].txt.t # "obj"
        => /\ client[r].body = <<>>
           /\ pc[r] = "done" => client[r].status >= 500

\* C14: the goroutine stops at the upstream's end and at a failed pw.Write,
\* whichever comes first; once it has stopped it reads no further upstream
\* line and writes nothing more; and whenever it has stopped, on whatever
\* path, the pipe's write end and the backend body are both closed.
C14_PumpStopsAndCloses ==
    /\ [](\A r \in Reqs : pump[r] = "done" => {"pw", "body"} \subseteq closed[r])
    /\ [][\A r \in Reqs :
            /\ pump[r] = "done" =>
                  /\ pump'[r] = "done" /\ scanPos'[r] = scanPos[r]
                  /\ pending'[r] = pending[r] /\ client'[r].body = client[r].body
            /\ pump[r] = "write" /\ "pr" \in closed[r] /\ pump'[r] # "write" =>
                  pump'[r] = "done" /\ scanPos'[r] = scanPos[r]
            /\ pump[r] = "scan" /\ upEOF[r] /\ scanPos[r] = Len(upstream[r])
                  /\ pump'[r] # "scan" => pump'[r] = "done"]_vars

\* a write failed with upstream lines still unread: the goroutine has stopped,
\* the kept line it was writing was not delivered, both ends are closed
C14_Witness ==
    \E r \in Reqs :
        /\ pump[r] = "done" /\ ~upEOF[r] /\ scanPos[r] < Len(upstream[r])
        /\ Len(SelectSeq(Txts(Scanned(r)), shouldKeepEvent)) = Len(client[r].body) + 1
        /\ {"pr", "pw", "body"} \subseteq closed[r]

\* the client of an event stream went away before the stream ended
ClientGone(r) == resp[r].src = "pipe" /\ pc[r] = "done" /\ ~client[r].eof

\* C15: once the client of an event stream has closed its connection, the
\* goroutine eventually stops and the backend body is closed, whether or not
\* the backend writes another line and whether or not a line is kept.
C15_ClientCloseEndsPump ==
    \A r \in Reqs :
        ClientGone(r) ~> (pump[r] = "done" /\ "body" \in closed[r])

\* the client went away from a stream whose backend stays open and has only
\* written a dropped line: the goroutine stopped without attempting a write
C15_Witness ==
    \E r \in Reqs :
        /\ ClientGone(r) /\ ~upEOF[r]
        /\ Len(upstream[r]) = 1 /\ scanPos[r] = 1
        /\ ~shouldKeepEvent(upstream[r][1].txt)
        /\ client[r].body = <<>>
        /\ pump[r] = "done" /\ "body" \in closed[r]

\* C16: writes to the pipe are synchronous: of the kept lines scanned from the
\* upstream at most one has not been taken by the reader, it is the line the
\* goroutine is writing and the last line it scanned, and while that write
\* is pending nothing further is scanned.
C16_AtMostOneLineInFlight ==
    \A r \in Reqs : pump[r] # "none" =>
        LET kept == SelectSeq(Txts(Scanned(r)), shouldKeepEvent)
        IN  /\ Len(kept) <= Len(client[r].body) + 1
            /\ pump[r] = "write" =>
                  /\ scanPos[r] >= 1
                  /\ pending[r] = ScanLines(upstream[r][scanPos[r]])
                  /\ Len(kept) = Len(client[r].body) + 1
            /\ pump[r] = "scan" =>
                  pending[r] = NoLine /\ Len(kept) = Len(client[r].body)

\* the goroutine is blocked writing the first line while the client has read
\* nothing and two more upstream lines wait unscanned
C16_Witness ==
    \E r \in Reqs :
        /\ pc[r] = "stream" /\ pump[r] = "write"
        /\ scanPos[r] = 1 /\ Len(upstream[r]) = 3 /\ client[r].body = <<>>

\* the request whose backend response wrote an event line
ClaimOwner(text) ==
    IF text.t = "obj" /\ ClaimMember(text.m, {"id"}).t = "str"
    THEN ClaimMember(text.m, {"id"}).s
    ELSE <<>>

\* C17: with concurrent requests there is a goroutine for a response if and
\* only if it is the response to a request on the event route, and every
\* line delivered or being written on a client's event stream was written by
\* the backend on the response of that same request.
C17_OnePumpPerStreamIsolated ==
    \A r \in Reqs :
        /\ pump[r] # "none" =>
              req[r].method = MethodGet /\ ClaimRoute(req[r].path) = <<w_events>>
        /\ req[r].method = MethodGet /\ ClaimRoute(req[r].path) = <<w_events>>
              /\ pc[r] \in {"copy", "stream", "done"} /\ bresp[r].status # 0
              => pump[r] # "none"
        /\ resp[r].src = "pipe" =>
              \A i \in 1..Len(Written(r)) :
                  /\ ClaimOwner(Written(r)[i].txt) = ActorId(r)
                  /\ \E j \in 1..Len(upstream[r]) :
                        upstream[r][j].txt = Written(r)[i].txt

\* C18: after a successful redaction the ContentLength field and the
\* Content-Length header both equal the byte length of the rebuilt body, and
\* that body with that length is what the client receives; when
\* modifyResponse does not redact, or the redactor returns an error, the
\* field and the header are as the backend sent them.
C18_DeclaredLengthMatchesBody ==
    \A r \in Reqs :
        /\ resp[r].src = "buffer" =>
              /\ Len(buffer[r]) = 1 /\ buffer[r][1].eol = ""
              /\ resp[r].clen = ByteLen(buffer[r][1].txt)
              /\ resp[r].hlen = ByteLen(buffer[r][1].txt)
              /\ pc[r] = "done" =>
                    /\ client[r].body = buffer[r]
                    /\ client[r].clen = ByteLen(client[r].body[1].txt)
        /\ resp[r].src \in {"upstream", "pipe"} =>
              resp[r].clen = bresp[r].clen /\ resp[r].hlen = bresp[r].hlen
        /\ bresp[r].status # 0 /\ filterInspectResponse(bresp[r], upstream[r]).err =>
              filterInspectResponse(bresp[r], upstream[r]).hdr = bresp[r]

\* a redacted body shorter than the backend's was delivered with its own length
C18_Witness ==
    \E r \in Reqs :
        /\ resp[r].src = "buffer" /\ pc[r] = "done"
        /\ upstream[r] = << Line(DocSecret, "lf") >>
        /\ client[r].clen = ByteLen(client[r].body[1].txt)
        /\ client[r].clen < bresp[r].hlen - 1

\* C19: every line delivered on an event stream is an upstream line with
\* every byte before its "\n" kept (same text, same number of bytes),
\* followed by one "\n".
C19_DeliveredLineUnchanged ==
    \A r \in Reqs : resp[r].src = "pipe" =>
        \A i \in 1..Len(client[r].body) :
            /\ client[r].body[i].eol = "lf"
            /\ \E j \in 1..Len(upstream[r]) :
                  /\ upstream[r][j].txt = client[r].body[i].txt
                  /\ upstream[r][j].sz = client[r].body[i].sz

\* C20: the goroutine ends a stream the client is still reading only when
\* the upstream has ended: it has then scanned every line the backend wrote,
\* whatever the length of a line, and delivered every line the classifier
\* keeps.
C20_OnlyEndsWithUpstreamOrClient ==
    \A r \in Reqs : pump[r] = "done" /\ ClientStayed(r) =>
        /\ upEOF[r] /\ scanPos[r] = Len(upstream[r])
        /\ Txts(client[r].body) = SelectSeq(Txts(upstream[r]), shouldKeepEvent)

====
